---- MODULE Spec2Model ----
(***************************************************************************)
(* A model of primitiv's CPUDevice (src/primitiv/cpu_device.cc) and of the *)
(* move-only Tensor handle (src/primitiv/tensor.h): the handle registry,   *)
(* the storage blocks behind it, and the kernels that read and write them. *)
(***************************************************************************)
EXTENDS Integers, Sequences, FiniteSets, TLC

(***************************************************************************)
(* Bounds of the model.                                                    *)
(***************************************************************************)
MaxRank == 3
MaxDim == 2
MaxBatch == 3
MaxTensors == 2
MaxGarbage == 1
MaxKernelOps == 1
MaxConcat == 2

(***************************************************************************)
(* Program constants.                                                      *)
(***************************************************************************)
\* sizeof(float) in new_handle's size computation
SizeofFloat == 4
\* `unsigned mem_size` is a 32-bit unsigned: sizeof(float) * n wraps modulo 2^32,
\* which is sizeof(float) * (n modulo 2^30)
FloatsPerWrap == 1073741824

NULL == 0
TensorIds == 1..MaxTensors

(***************************************************************************)
(* float values.  A small integer is held exactly by a float, and sums,    *)
(* differences and products of small integers are exact; any other value   *)
(* is kept as the term of the operation that produced it.  Every value is  *)
(* a pair <<tag, payload>>.                                                *)
(***************************************************************************)
F(n) == <<"num", n>>
IsNum(v) == v[1] = "num"
FAdd(x, y) == IF IsNum(x) /\ IsNum(y) THEN F(x[2] + y[2]) ELSE <<"add", <<x, y>>>>
FSub(x, y) == IF IsNum(x) /\ IsNum(y) THEN F(x[2] - y[2]) ELSE <<"sub", <<x, y>>>>
FMul(x, y) == IF IsNum(x) /\ IsNum(y) THEN F(x[2] * y[2]) ELSE <<"mul", <<x, y>>>>
FDiv(x, y) ==
  IF IsNum(x) /\ IsNum(y) /\ y[2] # 0 /\ x[2] % y[2] = 0
  THEN F(x[2] \div y[2])
  ELSE <<"div", <<x, y>>>>
FNeg(x) == IF IsNum(x) THEN F(0 - x[2]) ELSE <<"neg", x>>
FExp(x) == <<"exp", x>>
FTanh(x) == <<"tanh", x>>
\* .5 + .5 * std::tanh(.5 * x)
FSigmoid(x) == <<"sigmoid", x>>
\* static_cast<float>(x > 0)
FStep(x) == IF IsNum(x) THEN F(IF x[2] > 0 THEN 1 ELSE 0) ELSE <<"step", x>>
\* std::max(x, .0f)
FRelu(x) == IF IsNum(x) THEN F(IF x[2] > 0 THEN x[2] ELSE 0) ELSE <<"relu", x>>
\* what a read outside the block yields
OOB == <<"oob", 0>>

(***************************************************************************)
(* Shape: per-axis extents (no trailing 1s) and a batch size.              *)
(***************************************************************************)
RECURSIVE Canon(_)
Canon(d) ==
  IF Len(d) > 0 /\ d[Len(d)] = 1 THEN Canon(SubSeq(d, 1, Len(d) - 1)) ELSE d

MkShape(d, k) == [dims |-> Canon(d), k |-> k]
DefaultShape == [dims |-> <<>>, k |-> 1]

\* Shape::operator[]: 1 past the declared rank
Dim(s, i) == IF i < Len(s.dims) THEN s.dims[i + 1] ELSE 1
batch_size(s) == s.k

RECURSIVE ProdUpTo(_, _)
ProdUpTo(d, n) == IF n = 0 THEN 1 ELSE d[n] * ProdUpTo(d, n - 1)

Min(a, b) == IF a < b THEN a ELSE b
Max(a, b) == IF a > b THEN a ELSE b

num_elements_under_rank(s, r) == ProdUpTo(s.dims, Min(r, Len(s.dims)))
num_elements_per_sample(s) == ProdUpTo(s.dims, Len(s.dims))
num_total_elements(s) == num_elements_per_sample(s) * s.k
resize_batch(s, k) == [s EXCEPT !.k = k]
resize_dim(s, d, n) ==
  MkShape([i \in 1..Max(Len(s.dims), d + 1) |->
             IF i = d + 1 THEN n ELSE Dim(s, i - 1)], s.k)

DimSeqs ==
  {d \in UNION {[1..n -> 1..MaxDim] : n \in 0..MaxRank} : Canon(d) = d}
Shapes == {[dims |-> d, k |-> k] : d \in DimSeqs, k \in 1..MaxBatch}
\* the shapes of the tensors the life-cycle operations allocate
VectorShapes == {s \in Shapes : Len(s.dims) <= 1 /\ s.k = 1}

(***************************************************************************)
(* State.                                                                  *)
(***************************************************************************)
VARIABLES
  blocks_,   \* CPUDevice::blocks_: handle -> mem_size
  heap,      \* the blocks malloc has handed out and free has not taken back
  tensors,   \* the Tensor objects of the client: id -> (alive, shape_, data_)
  device,    \* "alive", "destroyed" (destructor returned) or "aborted"
  last,      \* the operation that ran last and how it ended
  out,       \* the host vector the last tensor_to_vector returned
  nops       \* the number of kernel calls the client has left

vars == <<blocks_, heap, tensors, device, last, out, nops>>

NoTensor == [alive |-> FALSE, shape |-> DefaultShape, data |-> NULL]
\* Tensor(): an invalid Tensor
DefaultTensor == [alive |-> TRUE, shape |-> DefaultShape, data |-> NULL]
\* Tensor(shape, device, data)
MkTensor(shape, data) == [alive |-> TRUE, shape |-> shape, data |-> data]

validAlways(x) == TRUE
\* Tensor::valid
valid(x) == x.data # NULL

\* op: the operation; err: it threw; ub: it read or wrote outside a block;
\* t: the Tensor it made or changed; xs: its Tensor arguments; h: the handle;
\* dim, off, k: its axis, offset and scalar arguments
KOp(op, err, ub, t, xs, h, dim, off, k) ==
  [op |-> op, err |-> err, ub |-> ub, t |-> t, a |-> IF Len(xs) > 0 THEN xs[1] ELSE 0,
   b |-> IF Len(xs) > 1 THEN xs[2] ELSE 0, xs |-> xs, h |-> h,
   dim |-> dim, off |-> off, k |-> k]
Op(op, err, t, a, b, h) ==
  KOp(op, err, FALSE, t,
      IF a = 0 THEN <<>> ELSE IF b = 0 THEN <<a>> ELSE <<a, b>>, h, 0, 0, F(0))

EmptyFn == [x \in {} |-> 0]
Without(f, h) == [x \in DOMAIN f \ {h} |-> f[x]]

Init ==
  /\ blocks_ = EmptyFn
  /\ heap = EmptyFn
  /\ tensors = [t \in TensorIds |-> NoTensor]
  /\ device = "alive"
  /\ last = Op("init", FALSE, 0, 0, 0, NULL)
  /\ out = <<>>
  /\ nops = 0

(***************************************************************************)
(* Storage life cycle.                                                     *)
(***************************************************************************)
mem_size(shape) == SizeofFloat * (num_total_elements(shape) % FloatsPerWrap)

\* the addresses malloc may hand out: as many as the client has Tensor variables
Handles == 1..Cardinality(DOMAIN tensors)
\* what std::malloc(n) may return: NULL, or a block that is not in use
MallocResults == {NULL} \cup (Handles \ DOMAIN heap)
\* the contents of a block fresh from malloc are indeterminate
Garbage(n) == {[i \in 1..(n \div SizeofFloat) |-> F(g)] : g \in 0..MaxGarbage}
\* every contents a fresh block may have
Blocks == Seq({F(g) : g \in 0..MaxGarbage})

\* CPUDevice::new_handle, malloc having returned `data` holding `junk`:
\* the registry and the heap afterwards, and whether it threw
new_handle(shape, data, junk) ==
  IF data = NULL
  THEN [threw |-> TRUE, blocks |-> blocks_, heap |-> heap]
  ELSE [threw |-> FALSE,
        blocks |-> (data :> mem_size(shape)) @@ blocks_,
        heap |-> (data :> junk) @@ heap]

delete_tensor_impl_keeps(bl, hp, data) ==
  IF data \notin DOMAIN bl
  THEN [threw |-> TRUE, blocks |-> bl, heap |-> hp]
  ELSE [threw |-> FALSE, blocks |-> bl, heap |-> Without(hp, data)]

delete_tensor_impl_silent(bl, hp, data) ==
  IF data \notin DOMAIN bl
  THEN [threw |-> FALSE, blocks |-> bl, heap |-> hp]
  ELSE [threw |-> FALSE, blocks |-> Without(bl, data), heap |-> Without(hp, data)]

\* CPUDevice::delete_tensor_impl on a Tensor whose data() is `data`
delete_tensor_impl(bl, hp, data) ==
  IF data \notin DOMAIN bl
  THEN [threw |-> TRUE, blocks |-> bl, heap |-> hp]
  ELSE [threw |-> FALSE, blocks |-> Without(bl, data), heap |-> Without(hp, data)]

\* Device::new_tensor(shape) into the Tensor variable t
NewTensor(t, shape) ==
  /\ device = "alive"
  /\ ~tensors[t].alive
  /\ \E data \in MallocResults :
       \E junk \in Garbage(mem_size(shape)) :
         LET r == new_handle(shape, data, junk) IN
         /\ blocks_' = r.blocks
         /\ heap' = r.heap
         /\ tensors' = IF r.threw THEN tensors
                       ELSE [tensors EXCEPT ![t] = MkTensor(shape, data)]
         /\ last' = Op("new_tensor", r.threw, t, 0, 0, data)
  /\ UNCHANGED <<device, out, nops>>

\* Tensor t; (the default constructor)
NewInvalid(t) ==
  /\ ~tensors[t].alive
  /\ tensors' = [tensors EXCEPT ![t] = DefaultTensor]
  /\ last' = Op("default", FALSE, t, 0, 0, NULL)
  /\ UNCHANGED <<blocks_, heap, device, out, nops>>

\* Tensor::~Tensor: a valid Tensor hands its storage back to the Device
DisposeTensor(t) ==
  /\ tensors[t].alive
  /\ device # "aborted"
  /\ IF valid(tensors[t])
     THEN LET r == delete_tensor_impl(blocks_, heap, tensors[t].data) IN
          /\ blocks_' = r.blocks
          /\ heap' = r.heap
          /\ last' = Op("dispose", r.threw, t, 0, 0, tensors[t].data)
     ELSE /\ UNCHANGED <<blocks_, heap>>
          /\ last' = Op("dispose", FALSE, t, 0, 0, NULL)
  /\ tensors' = [tensors EXCEPT ![t] = NoTensor]
  /\ UNCHANGED <<device, out, nops>>

\* Tensor dst(std::move(src))
MoveConstruct(dst, src) ==
  /\ device # "aborted"
  /\ dst # src
  /\ ~tensors[dst].alive
  /\ tensors[src].alive
  /\ tensors' = [tensors EXCEPT
       ![dst] = MkTensor(tensors[src].shape, tensors[src].data),
       ![src] = DefaultTensor]
  /\ last' = Op("move_construct", FALSE, dst, src, 0, tensors[src].data)
  /\ UNCHANGED <<blocks_, heap, device, out, nops>>

\* dst = std::move(src): dst first gives up the storage it holds
MoveAssign(dst, src) ==
  /\ device # "aborted"
  /\ dst # src
  /\ tensors[dst].alive
  /\ tensors[src].alive
  /\ LET r == IF valid(tensors[dst])
              THEN delete_tensor_impl(blocks_, heap, tensors[dst].data)
              ELSE [threw |-> FALSE, blocks |-> blocks_, heap |-> heap] IN
     /\ blocks_' = r.blocks
     /\ heap' = r.heap
     /\ tensors' = IF r.threw THEN tensors
                   ELSE [tensors EXCEPT
                     ![dst] = MkTensor(tensors[src].shape, tensors[src].data),
                     ![src] = DefaultTensor]
     /\ last' = Op("move_assign", r.threw, dst, src, 0, tensors[src].data)
  /\ UNCHANGED <<device, out, nops>>

DestructorNeverAborts == "destroyed"
\* CPUDevice::~CPUDevice
DestructorOutcome == IF blocks_ # EmptyFn THEN "aborted" ELSE "destroyed"

DestroyDevice ==
  /\ device = "alive"
  /\ device' = DestructorOutcome
  /\ last' = Op("destroy_device", FALSE, 0, 0, 0, NULL)
  /\ UNCHANGED <<blocks_, heap, tensors, out, nops>>

Next ==
  \/ \E t \in TensorIds, s \in VectorShapes : NewTensor(t, s)
  \/ \E t \in TensorIds : NewInvalid(t)
  \/ \E t \in TensorIds : DisposeTensor(t)
  \/ \E d \in TensorIds, s \in TensorIds : MoveConstruct(d, s)
  \/ \E d \in TensorIds, s \in TensorIds : MoveAssign(d, s)
  \/ DestroyDevice

Spec == Init /\ [][Next]_vars

(***************************************************************************)
(* The same client, which also calls delete_tensor on a Tensor built with  *)
(* the public constructor Tensor(shape, device, data) around any pointer.  *)
(***************************************************************************)
DeleteTensor(data) ==
  /\ device = "alive"
  /\ LET r == delete_tensor_impl(blocks_, heap, data) IN
     /\ blocks_' = r.blocks
     /\ heap' = r.heap
     /\ last' = Op("delete_tensor", r.threw, 0, 0, 0, data)
  /\ UNCHANGED <<tensors, device, out, nops>>

NextRaw ==
  \/ \E t \in TensorIds, s \in VectorShapes : NewTensor(t, s)
  \/ \E t \in TensorIds : NewInvalid(t)
  \/ \E t \in TensorIds : DisposeTensor(t)
  \/ \E d \in TensorIds, s \in TensorIds : MoveConstruct(d, s)
  \/ \E d \in TensorIds, s \in TensorIds : MoveAssign(d, s)
  \/ \E data \in Handles \cup {NULL} : DeleteTensor(data)

SpecRaw == Init /\ [][NextRaw]_vars

(***************************************************************************)
(* Kernels.  A Tensor argument is read as its shape and the contents of    *)
(* its block; a loop of the source is a fold over its index range, in the  *)
(* order the source runs it.                                               *)
(***************************************************************************)
RECURSIVE FoldRange(_, _, _, _)
\* for (unsigned i = from; i < n; ++i) acc = Body(acc, i);   (REPEAT_OP)
\* the iterations run in the order of the loop: those of [from, mid) are over,
\* and their result `done` is a value, before those of [mid, n) begin
FoldRange(Body(_, _), acc, from, n) ==
  IF from >= n THEN acc
  ELSE IF from + 1 = n THEN Body(acc, from)
  ELSE LET mid == (from + n) \div 2
           done == FoldRange(Body, acc, from, mid)
       IN IF done = done THEN FoldRange(Body, done, mid, n) ELSE acc

\* the block a kernel writes: its contents, and whether an access left a block
Mem(d) == [d |-> d, ub |-> FALSE]
InBlock(d, i) == i >= 0 /\ i < Len(d)
\* src[i]
Load(d, i) == IF InBlock(d, i) THEN d[i + 1] ELSE OOB
\* dest[i] = v, where `inside` tells that what v was read from lay inside its block
Store(m, i, v, inside) ==
  IF InBlock(m.d, i)
  THEN [d |-> [m.d EXCEPT ![i + 1] = v], ub |-> m.ub \/ ~inside]
  ELSE [d |-> m.d, ub |-> TRUE]

\* the value of a Tensor: shape() and the floats data() points at
TV(t) == [shape |-> tensors[t].shape, data |-> heap[tensors[t].data]]
Usable(t) ==
  /\ tensors[t].alive /\ valid(tensors[t])
  /\ tensors[t].data \in DOMAIN heap
LiveIds == {t \in DOMAIN tensors : Usable(t)}

has_same_dims(sa, sb) == sa.dims = sb.dims
has_compatible_batch(sa, sb) == sa.k = sb.k \/ sa.k = 1 \/ sb.k = 1
\* a check that lets every pair of shapes through
CompatibleAlways(sa, sb) == TRUE
\* broadcast-compatible shapes: equal per-sample shape, batch equal or 1
Compatible(sa, sb) == has_same_dims(sa, sb) /\ has_compatible_batch(sa, sb)

\* CPUDevice::duplicate_impl: memcpy of num_total_elements floats
duplicate_impl(x, junk) ==
  LET size == num_total_elements(x.shape) IN
  FoldRange(LAMBDA m, i : Store(m, i, Load(x.data, i), InBlock(x.data, i)),
            Mem(junk), 0, size)

\* CPUDevice::negate_impl
negate_impl(x, junk) ==
  LET size == num_total_elements(x.shape) IN
  FoldRange(LAMBDA m, i : Store(m, i, FNeg(Load(x.data, i)), InBlock(x.data, i)),
            Mem(junk), 0, size)

\* CPUDevice::add_impl(x, k)
add_k_impl(x, k, junk) ==
  LET size == num_total_elements(x.shape) IN
  FoldRange(LAMBDA m, i : Store(m, i, FAdd(Load(x.data, i), k), InBlock(x.data, i)),
            Mem(junk), 0, size)

\* CPUDevice::subtract_impl(x, k)
subtract_k_impl(x, k, junk) ==
  LET size == num_total_elements(x.shape) IN
  FoldRange(LAMBDA m, i : Store(m, i, FSub(Load(x.data, i), k), InBlock(x.data, i)),
            Mem(junk), 0, size)

\* CPUDevice::subtract_impl(k, x)
k_subtract_impl(k, x, junk) ==
  LET size == num_total_elements(x.shape) IN
  FoldRange(LAMBDA m, i : Store(m, i, FSub(k, Load(x.data, i)), InBlock(x.data, i)),
            Mem(junk), 0, size)

\* CPUDevice::multiply_impl(x, k)
multiply_k_impl(x, k, junk) ==
  LET size == num_total_elements(x.shape) IN
  FoldRange(LAMBDA m, i : Store(m, i, FMul(Load(x.data, i), k), InBlock(x.data, i)),
            Mem(junk), 0, size)

\* CPUDevice::divide_impl(x, k)
divide_k_impl(x, k, junk) ==
  LET size == num_total_elements(x.shape) IN
  FoldRange(LAMBDA m, i : Store(m, i, FDiv(Load(x.data, i), k), InBlock(x.data, i)),
            Mem(junk), 0, size)

\* CPUDevice::divide_impl(k, x)
k_divide_impl(k, x, junk) ==
  LET size == num_total_elements(x.shape) IN
  FoldRange(LAMBDA m, i : Store(m, i, FDiv(k, Load(x.data, i)), InBlock(x.data, i)),
            Mem(junk), 0, size)

\* CPUDevice::exp_impl
exp_impl(x, junk) ==
  LET size == num_total_elements(x.shape) IN
  FoldRange(LAMBDA m, i : Store(m, i, FExp(Load(x.data, i)), InBlock(x.data, i)),
            Mem(junk), 0, size)

\* CPUDevice::tanh_impl
tanh_impl(x, junk) ==
  LET size == num_total_elements(x.shape) IN
  FoldRange(LAMBDA m, i : Store(m, i, FTanh(Load(x.data, i)), InBlock(x.data, i)),
            Mem(junk), 0, size)

\* CPUDevice::sigmoid_impl
sigmoid_impl(x, junk) ==
  LET size == num_total_elements(x.shape) IN
  FoldRange(LAMBDA m, i : Store(m, i, FSigmoid(Load(x.data, i)), InBlock(x.data, i)),
            Mem(junk), 0, size)

\* CPUDevice::step_impl
step_impl(x, junk) ==
  LET size == num_total_elements(x.shape) IN
  FoldRange(LAMBDA m, i : Store(m, i, FStep(Load(x.data, i)), InBlock(x.data, i)),
            Mem(junk), 0, size)

\* CPUDevice::relu_impl
relu_impl(x, junk) ==
  LET size == num_total_elements(x.shape) IN
  FoldRange(LAMBDA m, i : Store(m, i, FRelu(Load(x.data, i)), InBlock(x.data, i)),
            Mem(junk), 0, size)

BoolInt(p) == IF p THEN 1 ELSE 0

\* the shape add, subtract, multiply and divide give their result
BinaryShape(a, b) ==
  resize_batch(a.shape, Max(batch_size(a.shape), batch_size(b.shape)))

\* dest[i] = src_a[i] op src_b[i]
BinaryOp(op, x, y) ==
  CASE op = "add" -> FAdd(x, y)
    [] op = "subtract" -> FSub(x, y)
    [] op = "multiply" -> FMul(x, y)
    [] op = "divide" -> FDiv(x, y)

\* the loop with every input stepping a full sample per batch index
BinaryNoBroadcast(op, a, b, junk) ==
  LET sa == a.shape
      sb == b.shape
      size == num_elements_per_sample(sa)
      bs == Max(batch_size(sa), batch_size(sb))
  IN FoldRange(LAMBDA m, bb :
       FoldRange(LAMBDA m2, i :
           Store(m2, bb * size + i,
                 BinaryOp(op, Load(a.data, bb * size + i), Load(b.data, bb * size + i)),
                 InBlock(a.data, bb * size + i) /\ InBlock(b.data, bb * size + i)),
         m, 0, size),
       Mem(junk), 0, bs)

\* the loop shared by add_impl, subtract_impl, multiply_impl and divide_impl
\* on two Tensors
Binary(op, a, b, junk) ==
  LET sa == a.shape
      sb == b.shape
      size == num_elements_per_sample(sa)
      bs == Max(batch_size(sa), batch_size(sb))
      skip_a == BoolInt(batch_size(sa) > 1) * size
      skip_b == BoolInt(batch_size(sb) > 1) * size
  IN FoldRange(LAMBDA m, bb :
       FoldRange(LAMBDA m2, i :
           Store(m2, bb * size + i,
                 BinaryOp(op, Load(a.data, bb * skip_a + i),
                          Load(b.data, bb * skip_b + i)),
                 InBlock(a.data, bb * skip_a + i) /\ InBlock(b.data, bb * skip_b + i)),
         m, 0, size),
       Mem(junk), 0, bs)

add_impl(a, b, junk) == Binary("add", a, b, junk)
subtract_impl(a, b, junk) == Binary("subtract", a, b, junk)
multiply_impl(a, b, junk) == Binary("multiply", a, b, junk)
divide_impl(a, b, junk) == Binary("divide", a, b, junk)

\* the loop with dest[i] = src[i] in place of dest[i] += src[i]
add_gradient_impl_overwrites(a, b, same) ==
  LET sa == a.shape
      sb == b.shape
      size == num_elements_per_sample(sa)
      bs == Max(batch_size(sa), batch_size(sb))
      b_skip_d == BoolInt(batch_size(sa) > 1) * size
      b_skip_s == BoolInt(batch_size(sb) > 1) * size
  IN FoldRange(LAMBDA m, bb :
       FoldRange(LAMBDA m2, i :
           LET src == IF same THEN m2.d ELSE b.data IN
           Store(m2, bb * b_skip_d + i, Load(src, bb * b_skip_s + i),
                 InBlock(m2.d, bb * b_skip_d + i) /\ InBlock(src, bb * b_skip_s + i)),
         m, 0, size),
       Mem(a.data), 0, bs)

\* CPUDevice::add_gradient_impl(a, b); `same`: a and b are one Tensor
add_gradient_impl(a, b, same) ==
  LET sa == a.shape
      sb == b.shape
      size == num_elements_per_sample(sa)
      bs == Max(batch_size(sa), batch_size(sb))
      b_skip_d == BoolInt(batch_size(sa) > 1) * size
      b_skip_s == BoolInt(batch_size(sb) > 1) * size
  IN FoldRange(LAMBDA m, bb :
       FoldRange(LAMBDA m2, i :
           LET src == IF same THEN m2.d ELSE b.data IN
           Store(m2, bb * b_skip_d + i,
                 FAdd(Load(m2.d, bb * b_skip_d + i), Load(src, bb * b_skip_s + i)),
                 InBlock(m2.d, bb * b_skip_d + i) /\ InBlock(src, bb * b_skip_s + i)),
         m, 0, size),
       Mem(a.data), 0, bs)

\* CPUDevice::reset_tensor_impl(x, k)
reset_tensor_impl(x, k) ==
  LET size == num_total_elements(x.shape) IN
  FoldRange(LAMBDA m, i : Store(m, i, k, TRUE), Mem(x.data), 0, size)

\* CPUDevice::reset_tensor_impl(x, values): memcpy of num_total_elements floats
reset_tensor_by_vector_impl(x, values) ==
  LET size == num_total_elements(x.shape) IN
  FoldRange(LAMBDA m, i : Store(m, i, Load(values, i), InBlock(values, i)),
            Mem(x.data), 0, size)

\* the vector returned when the copy runs from the last float to the first
tensor_to_vector_impl_reversed(x) ==
  LET num_elements == num_total_elements(x.shape) IN
  [i \in 1..num_elements |-> Load(x.data, num_elements - i)]

\* CPUDevice::tensor_to_vector_impl(x): the vector returned
tensor_to_vector_impl(x) ==
  LET num_elements == num_total_elements(x.shape) IN
  [i \in 1..num_elements |-> Load(x.data, i - 1)]

\* the loop with src = CDATA(x), the offset left out
slice_impl_no_offset(x, dim, offset, new_shape, junk) ==
  LET base == num_elements_under_rank(new_shape, dim)
      span == base * Dim(new_shape, dim)
      skip == base * Dim(x.shape, dim)
      repeat == num_total_elements(new_shape) \div span
  IN FoldRange(LAMBDA m, i :
       FoldRange(LAMBDA m2, j :
           Store(m2, i * span + j, Load(x.data, i * skip + j),
                 InBlock(x.data, i * skip + j)),
         m, 0, span),
       Mem(junk), 0, repeat)

\* CPUDevice::slice_impl: what it writes into the fresh block of new_shape
slice_impl(x, dim, offset, new_shape, junk) ==
  LET base == num_elements_under_rank(new_shape, dim)
      span == base * Dim(new_shape, dim)
      skip == base * Dim(x.shape, dim)
      repeat == num_total_elements(new_shape) \div span
  IN FoldRange(LAMBDA m, i :
       FoldRange(LAMBDA m2, j :
           Store(m2, i * span + j, Load(x.data, base * offset + i * skip + j),
                 InBlock(x.data, base * offset + i * skip + j)),
         m, 0, span),
       Mem(junk), 0, repeat)

\* CPUDevice::concat_impl on the Tensor values xs
concat_impl(xs, dim, new_shape, junk) ==
  LET new_bs == batch_size(new_shape)
      base == num_elements_under_rank(new_shape, dim)
      skip == base * Dim(new_shape, dim)
      repeat == num_elements_per_sample(new_shape) \div skip
      OneInput(acc, n) ==
        LET x == xs[n + 1]
            src_dim == Dim(x.shape, dim)
            span == base * src_dim
            b_skip == BoolInt(batch_size(x.shape) > 1) * span * repeat
            offset == acc.offset
            filled ==
              FoldRange(LAMBDA m, b :
                FoldRange(LAMBDA m2, i :
                  FoldRange(LAMBDA m3, j :
                      Store(m3, offset + (b * repeat + i) * skip + j,
                            Load(x.data, b * b_skip + i * span + j),
                            InBlock(x.data, b * b_skip + i * span + j)),
                    m2, 0, span),
                  m, 0, repeat),
                acc.m, 0, new_bs)
        IN [m |-> filled, offset |-> offset + span]
  IN FoldRange(OneInput, [m |-> Mem(junk), offset |-> 0], 0, Len(xs)).m

\* CPUDevice::transpose_impl
TransposeShape(s) == MkShape(<<Dim(s, 1), Dim(s, 0)>>, batch_size(s))
transpose_impl(x, junk) ==
  LET s == x.shape
      d1 == Dim(s, 0)
      d2 == Dim(s, 1)
      ms == d1 * d2
      bs == batch_size(s)
  IN FoldRange(LAMBDA m, k :
       FoldRange(LAMBDA m2, j :
         FoldRange(LAMBDA m3, i :
             Store(m3, k * ms + j + i * d2, Load(x.data, k * ms + j * d1 + i),
                   InBlock(x.data, k * ms + j * d1 + i)),
           m2, 0, d1),
         m, 0, d2),
       Mem(junk), 0, bs)

\* float tmp = 0; ... tmp += term: the running sum and whether every read
\* lay inside its block
Tmp0 == [v |-> F(0), inside |-> TRUE]
Accumulate(tmp, v, inside) ==
  [v |-> FAdd(tmp.v, v), inside |-> tmp.inside /\ inside]

\* the loops reading a row by row: a[i * d2 + j] in place of a[i + j * d1]
dot_impl_row_major(a, b, junk) ==
  LET sa == a.shape
      sb == b.shape
      d1 == Dim(sa, 0)
      d2 == Dim(sa, 1)
      d3 == Dim(sb, 1)
      bs == Max(batch_size(sa), batch_size(sb))
      dest_shift == d1 * d3
      src_a_shift == BoolInt(batch_size(sa) > 1) * d1 * d2
      src_b_shift == BoolInt(batch_size(sb) > 1) * d2 * d3
  IN FoldRange(LAMBDA m, bb :
       FoldRange(LAMBDA m2, i :
         FoldRange(LAMBDA m3, kk :
             LET ky == kk * d1
                 kb == kk * d2
                 tmp ==
                   FoldRange(LAMBDA t, jb :
                       Accumulate(t,
                         FMul(Load(a.data, bb * src_a_shift + i * d2 + jb),
                              Load(b.data, bb * src_b_shift + jb + kb)),
                         InBlock(a.data, bb * src_a_shift + i * d2 + jb)
                           /\ InBlock(b.data, bb * src_b_shift + jb + kb)),
                     Tmp0, 0, d2)
             IN Store(m3, bb * dest_shift + i + ky, tmp.v, tmp.inside),
           m2, 0, d3),
         m, 0, d1),
       Mem(junk), 0, bs)

\* the shape dot gives its result
DotShape(a, b) ==
  MkShape(<<Dim(a.shape, 0), Dim(b.shape, 1)>>,
          Max(batch_size(a.shape), batch_size(b.shape)))

\* CPUDevice::dot_impl
dot_impl(a, b, junk) ==
  LET sa == a.shape
      sb == b.shape
      d1 == Dim(sa, 0)
      d2 == Dim(sa, 1)
      d3 == Dim(sb, 1)
      bs == Max(batch_size(sa), batch_size(sb))
      dest_shift == d1 * d3
      src_a_shift == BoolInt(batch_size(sa) > 1) * d1 * d2
      src_b_shift == BoolInt(batch_size(sb) > 1) * d2 * d3
  IN FoldRange(LAMBDA m, bb :
       FoldRange(LAMBDA m2, i :
         \* ky = kk * d1 and kb = kk * d2; ky < dest_shift is kk < d3
         FoldRange(LAMBDA m3, kk :
             LET ky == kk * d1
                 kb == kk * d2
                 tmp ==
                   FoldRange(LAMBDA t, jb :
                       LET ja == jb * d1 IN
                       Accumulate(t,
                         FMul(Load(a.data, bb * src_a_shift + i + ja),
                              Load(b.data, bb * src_b_shift + jb + kb)),
                         InBlock(a.data, bb * src_a_shift + i + ja)
                           /\ InBlock(b.data, bb * src_b_shift + jb + kb)),
                     Tmp0, 0, d2)
             IN Store(m3, bb * dest_shift + i + ky, tmp.v, tmp.inside),
           m2, 0, d3),
         m, 0, d1),
       Mem(junk), 0, bs)

\* the loop reading x.data[offset + j], the step between the summands left out
sum_impl_contiguous(x, dim, junk) ==
  LET new_shape == resize_dim(x.shape, dim, 1)
      n == Dim(x.shape, dim)
      repeat == num_total_elements(new_shape)
      skip1 == num_elements_under_rank(new_shape, dim)
      skip2 == skip1 * n
  IN FoldRange(LAMBDA m, i :
         LET offset == (i % skip1) + (i \div skip1) * skip2
             tmp == FoldRange(LAMBDA t, j :
                        Accumulate(t, Load(x.data, offset + j),
                                   InBlock(x.data, offset + j)),
                      Tmp0, 0, n)
         IN Store(m, i, tmp.v, tmp.inside),
       Mem(junk), 0, repeat)

\* CPUDevice::sum_impl
SumShape(x, dim) == resize_dim(x.shape, dim, 1)
sum_impl(x, dim, junk) ==
  LET new_shape == resize_dim(x.shape, dim, 1)
      n == Dim(x.shape, dim)
      repeat == num_total_elements(new_shape)
      skip1 == num_elements_under_rank(new_shape, dim)
      skip2 == skip1 * n
  IN FoldRange(LAMBDA m, i :
         LET offset == (i % skip1) + (i \div skip1) * skip2
             tmp == FoldRange(LAMBDA t, j :
                        Accumulate(t, Load(x.data, offset + j * skip1),
                                   InBlock(x.data, offset + j * skip1)),
                      Tmp0, 0, n)
         IN Store(m, i, tmp.v, tmp.inside),
       Mem(junk), 0, repeat)

\* CPUDevice::batch_sum_impl
BatchSumShape(x) == resize_batch(x.shape, 1)
batch_sum_impl(x, junk) ==
  LET bs == batch_size(x.shape)
      size == num_total_elements(resize_batch(x.shape, 1))
  IN FoldRange(LAMBDA m, i :
         LET temp == FoldRange(LAMBDA t, b :
                         Accumulate(t, Load(x.data, i + b * size),
                                    InBlock(x.data, i + b * size)),
                       Tmp0, 0, bs)
         IN Store(m, i, temp.v, temp.inside),
       Mem(junk), 0, size)

\* the loops with dest = DATA(a), the offset left out
add_gradient_offset_impl_no_offset(a, b, dim, offset, same) ==
  LET sa == a.shape
      sb == b.shape
      base == num_elements_under_rank(sa, dim)
      span == base * Dim(sb, dim)
      skip == base * Dim(sa, dim)
      repeat == num_elements_per_sample(sa) \div skip
      bs == Max(batch_size(sa), batch_size(sb))
      b_skip_d == BoolInt(batch_size(sa) > 1) * num_elements_per_sample(sa)
      b_skip_s == BoolInt(batch_size(sb) > 1) * num_elements_per_sample(sb)
  IN FoldRange(LAMBDA m, bb :
       FoldRange(LAMBDA m2, i :
         FoldRange(LAMBDA m3, j :
             LET src == IF same THEN m3.d ELSE b.data
                 di == bb * b_skip_d + i * skip + j
                 si == bb * b_skip_s + i * span + j
             IN Store(m3, di, FAdd(Load(m3.d, di), Load(src, si)),
                      InBlock(m3.d, di) /\ InBlock(src, si)),
           m2, 0, span),
         m, 0, repeat),
       Mem(a.data), 0, bs)

\* CPUDevice::add_gradient_offset_impl(a, b, dim, offset)
add_gradient_offset_impl(a, b, dim, offset, same) ==
  LET sa == a.shape
      sb == b.shape
      base == num_elements_under_rank(sa, dim)
      span == base * Dim(sb, dim)
      skip == base * Dim(sa, dim)
      repeat == num_elements_per_sample(sa) \div skip
      bs == Max(batch_size(sa), batch_size(sb))
      b_skip_d == BoolInt(batch_size(sa) > 1) * num_elements_per_sample(sa)
      b_skip_s == BoolInt(batch_size(sb) > 1) * num_elements_per_sample(sb)
  IN FoldRange(LAMBDA m, bb :
       FoldRange(LAMBDA m2, i :
         FoldRange(LAMBDA m3, j :
             LET src == IF same THEN m3.d ELSE b.data
                 di == base * offset + bb * b_skip_d + i * skip + j
                 si == bb * b_skip_s + i * span + j
             IN Store(m3, di, FAdd(Load(m3.d, di), Load(src, si)),
                      InBlock(m3.d, di) /\ InBlock(src, si)),
           m2, 0, span),
         m, 0, repeat),
       Mem(a.data), 0, bs)

\* what dist(rng_) may return, element by element
BernoulliDraws == {F(0), F(1)}
UniformDraws(lower, upper) == {F(v) : v \in lower..upper}
NormalDraws(mean) == {F(mean - 1), F(mean), F(mean + 1)}

\* REPEAT_OP(i, size, dest[i] = dist(rng_)): random_bernoulli_impl, random_normal_impl
random_fill(shape, draws, junk) ==
  LET size == num_total_elements(shape) IN
  FoldRange(LAMBDA m, i : Store(m, i, Load(draws, i), TRUE), Mem(junk), 0, size)

\* the loop with dest[i] = x, a draw equal to lower passed through
random_uniform_impl_closed(shape, lower, upper, draws, junk) ==
  LET size == num_total_elements(shape) IN
  FoldRange(LAMBDA m, i : Store(m, i, Load(draws, i), TRUE), Mem(junk), 0, size)

\* CPUDevice::random_uniform_impl: dest[i] = x == lower ? upper : x
random_uniform_impl(shape, lower, upper, draws, junk) ==
  LET size == num_total_elements(shape) IN
  FoldRange(LAMBDA m, i :
       LET x == Load(draws, i) IN
       Store(m, i, IF x = F(lower) THEN F(upper) ELSE x, TRUE),
     Mem(junk), 0, size)

(***************************************************************************)
(* Kernel calls on the Tensors of a client.                                *)
(***************************************************************************)
NoScalar == F(0)
HasFreeSlot == \E t \in DOMAIN tensors : ~tensors[t].alive
\* the Tensor variable that receives a kernel's result
FreeSlot ==
  CHOOSE t \in DOMAIN tensors :
    ~tensors[t].alive /\ \A u \in DOMAIN tensors : u < t => tensors[u].alive

CanCall == device = "alive" /\ nops > 0

\* Tensor ret = new_tensor(shape), the kernel then writing through the pointer
\* of its first argument: dest = DATA(x) in place of dest = DATA(ret)
ProduceOverInput(op, xs, dim, off, k, shape, fill) ==
  /\ CanCall
  /\ HasFreeSlot
  /\ \E data \in MallocResults :
       \E junk \in Garbage(mem_size(shape)) :
         LET r == new_handle(shape, data, junk) IN
         IF r.threw
         THEN /\ UNCHANGED <<blocks_, heap, tensors>>
              /\ last' = KOp(op, TRUE, FALSE, 0, xs, NULL, dim, off, k)
         ELSE LET w == fill[junk]
                  dest == IF Len(xs) > 0 THEN tensors[xs[1]].data ELSE data
              IN
              /\ blocks_' = r.blocks
              /\ heap' = [r.heap EXCEPT ![dest] = w.d]
              /\ tensors' = [tensors EXCEPT ![FreeSlot] = MkTensor(shape, data)]
              /\ last' = KOp(op, FALSE, w.ub, FreeSlot, xs, data, dim, off, k)
  /\ nops' = nops - 1
  /\ UNCHANGED <<device, out>>

\* Tensor ret = new_tensor(shape); <the kernel writes ret's block>; return ret;
\* fill[junk] is what the kernel makes of a fresh block holding junk
Produce(op, xs, dim, off, k, shape, fill) ==
  /\ CanCall
  /\ HasFreeSlot
  /\ \E data \in MallocResults :
       \E junk \in Garbage(mem_size(shape)) :
         LET r == new_handle(shape, data, junk) IN
         IF r.threw
         THEN /\ UNCHANGED <<blocks_, heap, tensors>>
              /\ last' = KOp(op, TRUE, FALSE, 0, xs, NULL, dim, off, k)
         ELSE LET w == fill[junk] IN
              /\ blocks_' = r.blocks
              /\ heap' = [r.heap EXCEPT ![data] = w.d]
              /\ tensors' = [tensors EXCEPT ![FreeSlot] = MkTensor(shape, data)]
              /\ last' = KOp(op, FALSE, w.ub, FreeSlot, xs, data, dim, off, k)
  /\ nops' = nops - 1
  /\ UNCHANGED <<device, out>>

\* the call threw before any storage was touched
Reject(op, xs, dim, off, k) ==
  /\ CanCall
  /\ last' = KOp(op, TRUE, FALSE, 0, xs, NULL, dim, off, k)
  /\ nops' = nops - 1
  /\ UNCHANGED <<blocks_, heap, tensors, device, out>>

\* the kernel wrote the block of the existing Tensor t
InPlace(op, t, xs, dim, off, k, w) ==
  /\ CanCall
  /\ heap' = [heap EXCEPT ![tensors[t].data] = w.d]
  /\ last' = KOp(op, FALSE, w.ub, t, xs, tensors[t].data, dim, off, k)
  /\ nops' = nops - 1
  /\ UNCHANGED <<blocks_, tensors, device, out>>

Scalars == {F(2)}

Duplicate(x) ==
  /\ CanCall
  /\ Usable(x)
  /\ Produce("duplicate", <<x>>, 0, 0, NoScalar, TV(x).shape,
             [junk \in Blocks |-> duplicate_impl(TV(x), junk)])
Negate(x) ==
  /\ CanCall
  /\ Usable(x)
  /\ Produce("negate", <<x>>, 0, 0, NoScalar, TV(x).shape,
             [junk \in Blocks |-> negate_impl(TV(x), junk)])
AddK(x, k) ==
  /\ CanCall
  /\ Usable(x)
  /\ Produce("add_k", <<x>>, 0, 0, k, TV(x).shape,
             [junk \in Blocks |-> add_k_impl(TV(x), k, junk)])
SubtractK(x, k) ==
  /\ CanCall
  /\ Usable(x)
  /\ Produce("subtract_k", <<x>>, 0, 0, k, TV(x).shape,
             [junk \in Blocks |-> subtract_k_impl(TV(x), k, junk)])
KSubtract(k, x) ==
  /\ CanCall
  /\ Usable(x)
  /\ Produce("k_subtract", <<x>>, 0, 0, k, TV(x).shape,
             [junk \in Blocks |-> k_subtract_impl(k, TV(x), junk)])
MultiplyK(x, k) ==
  /\ CanCall
  /\ Usable(x)
  /\ Produce("multiply_k", <<x>>, 0, 0, k, TV(x).shape,
             [junk \in Blocks |-> multiply_k_impl(TV(x), k, junk)])
DivideK(x, k) ==
  /\ CanCall
  /\ Usable(x)
  /\ Produce("divide_k", <<x>>, 0, 0, k, TV(x).shape,
             [junk \in Blocks |-> divide_k_impl(TV(x), k, junk)])
KDivide(k, x) ==
  /\ CanCall
  /\ Usable(x)
  /\ Produce("k_divide", <<x>>, 0, 0, k, TV(x).shape,
             [junk \in Blocks |-> k_divide_impl(k, TV(x), junk)])
Exp(x) ==
  /\ CanCall
  /\ Usable(x)
  /\ Produce("exp", <<x>>, 0, 0, NoScalar, TV(x).shape,
             [junk \in Blocks |-> exp_impl(TV(x), junk)])
Tanh(x) ==
  /\ CanCall
  /\ Usable(x)
  /\ Produce("tanh", <<x>>, 0, 0, NoScalar, TV(x).shape,
             [junk \in Blocks |-> tanh_impl(TV(x), junk)])
Sigmoid(x) ==
  /\ CanCall
  /\ Usable(x)
  /\ Produce("sigmoid", <<x>>, 0, 0, NoScalar, TV(x).shape,
             [junk \in Blocks |-> sigmoid_impl(TV(x), junk)])
Step(x) ==
  /\ CanCall
  /\ Usable(x)
  /\ Produce("step", <<x>>, 0, 0, NoScalar, TV(x).shape,
             [junk \in Blocks |-> step_impl(TV(x), junk)])
Relu(x) ==
  /\ CanCall
  /\ Usable(x)
  /\ Produce("relu", <<x>>, 0, 0, NoScalar, TV(x).shape,
             [junk \in Blocks |-> relu_impl(TV(x), junk)])

\* add, subtract, multiply, divide on two Tensors: the shapes are checked first
BinaryCall(op, a, b, fill) ==
  /\ CanCall
  /\ Usable(a) /\ Usable(b)
  /\ IF Compatible(TV(a).shape, TV(b).shape)
     THEN Produce(op, <<a, b>>, 0, 0, NoScalar, BinaryShape(TV(a), TV(b)), fill)
     ELSE Reject(op, <<a, b>>, 0, 0, NoScalar)

Add(a, b) == BinaryCall("add", a, b, [junk \in Blocks |-> add_impl(TV(a), TV(b), junk)])
Subtract(a, b) ==
  BinaryCall("subtract", a, b, [junk \in Blocks |-> subtract_impl(TV(a), TV(b), junk)])
Multiply(a, b) ==
  BinaryCall("multiply", a, b, [junk \in Blocks |-> multiply_impl(TV(a), TV(b), junk)])
Divide(a, b) ==
  BinaryCall("divide", a, b, [junk \in Blocks |-> divide_impl(TV(a), TV(b), junk)])

\* Tensor::add_gradient(x) on the Tensor a
AddGradient(a, b) ==
  /\ CanCall
  /\ Usable(a) /\ Usable(b)
  /\ IF Compatible(TV(a).shape, TV(b).shape)
     THEN InPlace("add_gradient", a, <<a, b>>, 0, 0, NoScalar,
                  add_gradient_impl(TV(a), TV(b), a = b))
     ELSE Reject("add_gradient", <<a, b>>, 0, 0, NoScalar)

\* Tensor::set_values(k)
Reset(x, k) ==
  /\ CanCall
  /\ Usable(x)
  /\ InPlace("reset", x, <<x>>, 0, 0, k, reset_tensor_impl(TV(x), k))

\* the vectors a client passes to set_values: as many floats as the Tensor has
ResetValues(n) == {[i \in 1..n |-> F(20 + i)], [i \in 1..n |-> F(40 - i)]}

\* Tensor::set_values(values)
ResetByVector(x) ==
  /\ CanCall
  /\ Usable(x)
  /\ \E values \in ResetValues(num_total_elements(TV(x).shape)) :
       InPlace("reset_by_vector", x, <<x>>, 0, 0, values,
               reset_tensor_by_vector_impl(TV(x), values))

\* Tensor::get_values
ToVector(x) ==
  /\ CanCall
  /\ Usable(x)
  /\ out' = tensor_to_vector_impl(TV(x))
  /\ last' = KOp("to_vector", FALSE, FALSE, x, <<x>>, tensors[x].data, 0, 0, NoScalar)
  /\ nops' = nops - 1
  /\ UNCHANGED <<blocks_, heap, tensors, device>>

\* CPUDevice::broadcast_impl: THROW_ERROR("not implemented")
Broadcast(x, dim) ==
  /\ CanCall
  /\ Usable(x)
  /\ Reject("broadcast", <<x>>, dim, 0, NoScalar)

\* Device::slice(x, dim, offset, new_shape), new_shape being x's shape with
\* `len` along dim
Slice(x, dim, offset, len) ==
  /\ CanCall
  /\ Usable(x)
  /\ IF offset + len <= Dim(TV(x).shape, dim)
     THEN LET new_shape == resize_dim(TV(x).shape, dim, len) IN
          Produce("slice", <<x>>, dim, offset, NoScalar, new_shape,
                  [junk \in Blocks |-> slice_impl(TV(x), dim, offset, new_shape, junk)])
     ELSE Reject("slice", <<x>>, dim, offset, NoScalar)

RECURSIVE SumDims(_, _, _)
SumDims(xs, dim, n) ==
  IF n = 0 THEN 0 ELSE Dim(TV(xs[n]).shape, dim) + SumDims(xs, dim, n - 1)
RECURSIVE MaxBatchOf(_, _)
MaxBatchOf(xs, n) ==
  IF n = 0 THEN 1 ELSE Max(batch_size(TV(xs[n]).shape), MaxBatchOf(xs, n - 1))

\* the shape of the concatenation of the Tensors xs along dim
ConcatShape(xs, dim) ==
  [dims |-> resize_dim(TV(xs[1]).shape, dim, SumDims(xs, dim, Len(xs))).dims,
   k |-> MaxBatchOf(xs, Len(xs))]
\* the Tensors xs can be concatenated along dim: they agree on every other
\* axis, and each batch size is 1 or the common one
Concatenable(xs, dim) ==
  \A n \in 1..Len(xs) :
    /\ resize_dim(TV(xs[n]).shape, dim, 1).dims = resize_dim(TV(xs[1]).shape, dim, 1).dims
    /\ batch_size(TV(xs[n]).shape) \in {1, MaxBatchOf(xs, Len(xs))}

\* Device::concat(xs, dim, new_shape)
Concat(xs, dim) ==
  /\ CanCall
  /\ \A n \in 1..Len(xs) : Usable(xs[n])
  /\ IF Concatenable(xs, dim)
     THEN LET new_shape == ConcatShape(xs, dim) IN
          Produce("concat", xs, dim, 0, NoScalar, new_shape,
                  [junk \in Blocks |-> concat_impl([n \in 1..Len(xs) |-> TV(xs[n])],
                                            dim, new_shape, junk)])
     ELSE Reject("concat", xs, dim, 0, NoScalar)

Transpose(x) ==
  /\ CanCall
  /\ Usable(x)
  /\ IF Len(TV(x).shape.dims) <= 2
     THEN Produce("transpose", <<x>>, 0, 0, NoScalar, TransposeShape(TV(x).shape),
                  [junk \in Blocks |-> transpose_impl(TV(x), junk)])
     ELSE Reject("transpose", <<x>>, 0, 0, NoScalar)

\* a is (d1, d2), b is (d2, d3), batch sizes equal or 1
Dottable(sa, sb) ==
  /\ Len(sa.dims) <= 2 /\ Len(sb.dims) <= 2
  /\ Dim(sa, 1) = Dim(sb, 0)
  /\ has_compatible_batch(sa, sb)

Dot(a, b) ==
  /\ CanCall
  /\ Usable(a) /\ Usable(b)
  /\ IF Dottable(TV(a).shape, TV(b).shape)
     THEN Produce("dot", <<a, b>>, 0, 0, NoScalar, DotShape(TV(a), TV(b)),
                  [junk \in Blocks |-> dot_impl(TV(a), TV(b), junk)])
     ELSE Reject("dot", <<a, b>>, 0, 0, NoScalar)

Sum(x, dim) ==
  /\ CanCall
  /\ Usable(x)
  /\ Produce("sum", <<x>>, dim, 0, NoScalar, SumShape(TV(x), dim),
             [junk \in Blocks |-> sum_impl(TV(x), dim, junk)])

BatchSum(x) ==
  /\ CanCall
  /\ Usable(x)
  /\ Produce("batch_sum", <<x>>, 0, 0, NoScalar, BatchSumShape(TV(x)),
             [junk \in Blocks |-> batch_sum_impl(TV(x), junk)])

\* b fits into a at offset along dim: equal extents on every other axis,
\* batch sizes equal or 1
FitsAtOffset(sa, sb, dim, offset) ==
  /\ resize_dim(sa, dim, 1).dims = resize_dim(sb, dim, 1).dims
  /\ has_compatible_batch(sa, sb)
  /\ offset + Dim(sb, dim) <= Dim(sa, dim)

AddGradientOffset(a, b, dim, offset) ==
  /\ CanCall
  /\ Usable(a) /\ Usable(b)
  /\ IF FitsAtOffset(TV(a).shape, TV(b).shape, dim, offset)
     THEN InPlace("add_gradient_offset", a, <<a, b>>, dim, offset, NoScalar,
                  add_gradient_offset_impl(TV(a), TV(b), dim, offset, a = b))
     ELSE Reject("add_gradient_offset", <<a, b>>, dim, offset, NoScalar)

DrawVectors(shape, draws) == [1..num_total_elements(shape) -> draws]

RandomBernoulli(shape) ==
  /\ CanCall
  /\ \E draws \in DrawVectors(shape, BernoulliDraws) :
       Produce("random_bernoulli", <<>>, 0, 0, NoScalar, shape,
               [junk \in Blocks |-> random_fill(shape, draws, junk)])

RandomUniform(shape, lower, upper) ==
  /\ CanCall
  /\ \E draws \in DrawVectors(shape, UniformDraws(lower, upper)) :
       Produce("random_uniform", <<>>, lower, upper, draws, shape,
               [junk \in Blocks |-> random_uniform_impl(shape, lower, upper, draws, junk)])

RandomNormal(shape, mean) ==
  /\ CanCall
  /\ \E draws \in DrawVectors(shape, NormalDraws(mean)) :
       Produce("random_normal", <<>>, 0, 0, F(mean), shape,
               [junk \in Blocks |-> random_fill(shape, draws, junk)])

(***************************************************************************)
(* A client that holds two Tensors a and b and calls one kernel after      *)
(* another.                                                                *)
(***************************************************************************)
Ramp(n, from) == [i \in 1..n |-> F(from + i - 1)]
\* 1 where the two leading coordinates agree, 0 elsewhere: the identity
\* matrix when the shape is square
Diagonal(s) ==
  [i \in 1..num_total_elements(s) |->
     LET e == (i - 1) % num_elements_per_sample(s)
         r == e % Dim(s, 0)
         c == (e \div Dim(s, 0)) % Dim(s, 1)
     IN F(BoolInt(r = c))]

\* the values the client gives a: 1, 2, 3, ..., or the identity matrix when a
\* is square
InputData(s) ==
  {Ramp(num_total_elements(s), 1)} \cup
  (IF Len(s.dims) = 2 /\ Dim(s, 0) = Dim(s, 1) THEN {Diagonal(s)} ELSE {})

KernelIds == 1..(2 + MaxKernelOps)

InitK ==
  \E sa \in Shapes, sb \in Shapes :
    \E da \in InputData(sa) :
      /\ tensors = [t \in KernelIds |->
                      IF t = 1 THEN MkTensor(sa, 1)
                      ELSE IF t = 2 THEN MkTensor(sb, 2) ELSE NoTensor]
      /\ heap = (1 :> da) @@ (2 :> Ramp(num_total_elements(sb), 5))
      /\ blocks_ = (1 :> mem_size(sa)) @@ (2 :> mem_size(sb))
      /\ device = "alive"
      /\ last = Op("init", FALSE, 0, 0, 0, NULL)
      /\ out = <<>>
      /\ nops = MaxKernelOps

Axes == 0..MaxRank
Offsets == 0..(MaxDim - 1)
Lengths == 1..MaxDim
ConcatLists ==
  IF CanCall THEN UNION {[1..n -> LiveIds] : n \in 1..MaxConcat} ELSE {}

NextK ==
  \/ \E x \in LiveIds : Duplicate(x)
  \/ \E x \in LiveIds : Negate(x)
  \/ \E x \in LiveIds, k \in Scalars : AddK(x, k)
  \/ \E x \in LiveIds, k \in Scalars : SubtractK(x, k)
  \/ \E x \in LiveIds, k \in Scalars : KSubtract(k, x)
  \/ \E x \in LiveIds, k \in Scalars : MultiplyK(x, k)
  \/ \E x \in LiveIds, k \in Scalars : DivideK(x, k)
  \/ \E x \in LiveIds, k \in Scalars : KDivide(k, x)
  \/ \E x \in LiveIds : Exp(x)
  \/ \E x \in LiveIds : Tanh(x)
  \/ \E x \in LiveIds : Sigmoid(x)
  \/ \E x \in LiveIds : Step(x)
  \/ \E x \in LiveIds : Relu(x)
  \/ \E a \in LiveIds, b \in LiveIds : Add(a, b)
  \/ \E a \in LiveIds, b \in LiveIds : Subtract(a, b)
  \/ \E a \in LiveIds, b \in LiveIds : Multiply(a, b)
  \/ \E a \in LiveIds, b \in LiveIds : Divide(a, b)
  \/ \E x \in LiveIds : Transpose(x)
  \/ \E a \in LiveIds, b \in LiveIds : Dot(a, b)
  \/ \E x \in LiveIds, dim \in Axes : Sum(x, dim)
  \/ \E x \in LiveIds, dim \in Axes : Broadcast(x, dim)
  \/ \E x \in LiveIds : BatchSum(x)
  \/ \E x \in LiveIds, dim \in Axes, offset \in Offsets, len \in Lengths :
       Slice(x, dim, offset, len)
  \/ \E xs \in ConcatLists, dim \in Axes : Concat(xs, dim)
  \/ \E s \in VectorShapes : RandomBernoulli(s)
  \/ \E s \in VectorShapes : RandomUniform(s, 0, 2)
  \/ \E s \in VectorShapes : RandomNormal(s, 0)
  \/ \E x \in LiveIds, k \in Scalars : Reset(x, k)
  \/ \E x \in LiveIds : ResetByVector(x)
  \/ \E x \in LiveIds : ToVector(x)
  \/ \E a \in LiveIds, b \in LiveIds : AddGradient(a, b)
  \/ \E a \in LiveIds, b \in LiveIds, dim \in Axes, offset \in Offsets :
       AddGradientOffset(a, b, dim, offset)

SpecK == InitK /\ [][NextK]_vars

(***************************************************************************)
(* A client that holds one Tensor x, cuts it along one axis into           *)
(* consecutive pieces with slice, and puts the pieces together again with  *)
(* concat along that axis, giving concat the shape of x.  It stops at the  *)
(* first call that throws.                                                 *)
(***************************************************************************)
\* x, the pieces, and the concatenation
SliceIds == 1..(MaxDim + 2)
\* the pieces cut so far, in the order they were cut
Pieces == [n \in 1..Cardinality({t \in DOMAIN tensors : t > 1 /\ tensors[t].alive})
             |-> n + 1]

InitSC ==
  \E s \in Shapes :
    /\ tensors = [t \in SliceIds |-> IF t = 1 THEN MkTensor(s, 1) ELSE NoTensor]
    /\ heap = (1 :> Ramp(num_total_elements(s), 1))
    /\ blocks_ = (1 :> mem_size(s))
    /\ device = "alive"
    /\ last = Op("init", FALSE, 0, 0, 0, NULL)
    /\ out = <<>>
    /\ nops = MaxDim + 1

\* the next piece: len along dim, from where the piece before it ended
SliceNext(dim, len) ==
  /\ CanCall
  /\ ~last.err
  /\ last.op \in {"init", "slice"}
  /\ last.op = "slice" => dim = last.dim
  /\ SumDims(Pieces, dim, Len(Pieces)) + len <= Dim(TV(1).shape, dim)
  /\ Slice(1, dim, SumDims(Pieces, dim, Len(Pieces)), len)

\* concat of all the pieces, once they cover the axis
ConcatPieces ==
  /\ CanCall
  /\ ~last.err
  /\ last.op = "slice"
  /\ SumDims(Pieces, last.dim, Len(Pieces)) = Dim(TV(1).shape, last.dim)
  /\ Produce("concat", Pieces, last.dim, 0, NoScalar, TV(1).shape,
             [junk \in Blocks |-> concat_impl([n \in 1..Len(Pieces) |-> TV(Pieces[n])],
                                              last.dim, TV(1).shape, junk)])

NextSC ==
  \/ \E dim \in Axes, len \in Lengths : SliceNext(dim, len)
  \/ ConcatPieces

SpecSC == InitSC /\ [][NextSC]_vars

(***************************************************************************)
(* A client that holds one Tensor x and reduces it, sets its values and    *)
(* reads them back.  x has any of the shapes, or the shape {3,2}.          *)
(***************************************************************************)
ExampleShapes == {MkShape(<<3, 2>>, 1)}
OneIds == 1..(2 + MaxKernelOps)

InitOne ==
  \E s \in Shapes \cup ExampleShapes :
    /\ tensors = [t \in OneIds |-> IF t = 1 THEN MkTensor(s, 1) ELSE NoTensor]
    /\ heap = (1 :> Ramp(num_total_elements(s), 1))
    /\ blocks_ = (1 :> mem_size(s))
    /\ device = "alive"
    /\ last = Op("init", FALSE, 0, 0, 0, NULL)
    /\ out = <<>>
    /\ nops = MaxKernelOps + 1

NextOne ==
  \/ \E dim \in Axes : Sum(1, dim)
  \/ ResetByVector(1)
  \/ ToVector(1)

SpecOne == InitOne /\ [][NextOne]_vars

(***************************************************************************)
(* Initializers.  Initializer::apply(x) consults x.shape() and writes x    *)
(* through set_values, or move-assigns to x the Tensor a random kernel     *)
(* returns.                                                                *)
(***************************************************************************)
\* x = x.device()->random_uniform(x.shape(), lower, upper): the kernel fills
\* a new block, and the move gives up the block x held
AssignUniform(op, x, lower, upper) ==
  LET shape == TV(x).shape IN
  /\ \E draws \in DrawVectors(shape, UniformDraws(lower, upper)) :
       \E data \in MallocResults :
         \E junk \in Garbage(mem_size(shape)) :
           LET r == new_handle(shape, data, junk) IN
           IF r.threw
           THEN /\ UNCHANGED <<blocks_, heap, tensors>>
                /\ last' = KOp(op, TRUE, FALSE, 0, <<x>>, NULL, lower, upper, draws)
           ELSE LET w == random_uniform_impl(shape, lower, upper, draws, junk)
                    d == delete_tensor_impl(r.blocks, [r.heap EXCEPT ![data] = w.d],
                                            tensors[x].data)
                IN /\ blocks_' = d.blocks
                   /\ heap' = d.heap
                   /\ tensors' = [tensors EXCEPT ![x] = MkTensor(shape, data)]
                   /\ last' = KOp(op, d.threw, w.ub, x, <<x>>, data, lower, upper, draws)
  /\ nops' = nops - 1
  /\ UNCHANGED <<device, out>>

\* Uniform(lower, upper).apply(x)
UniformApply(x, lower, upper) ==
  /\ CanCall
  /\ Usable(x)
  /\ AssignUniform("uniform", x, lower, upper)

\* XavierUniform(scale).apply(x), `bound` being the float it computes,
\* scale * sqrt(6 / (fan_in + fan_out)); a shape of rank above 2 is refused,
\* and whether one of rank below 2 is refused is not told
XavierUniformApply(x, bound) ==
  /\ CanCall
  /\ Usable(x)
  /\ \/ /\ Len(TV(x).shape.dims) <= 2
        /\ AssignUniform("xavier_uniform", x, 0 - bound, bound)
     \/ /\ Len(TV(x).shape.dims) # 2
        /\ Reject("xavier_uniform", <<x>>, 0 - bound, bound, NoScalar)

\* the square matrix with the 1s one row below the diagonal
IdentityValuesShifted(N) ==
  [i \in 1..(N * N) |-> F(BoolInt((i - 1) % N = ((i - 1) \div N + 1) % N))]

\* the identity matrix of N columns in column-major order: 1 on the diagonal,
\* 0 off it
IdentityValues(N) ==
  [i \in 1..(N * N) |-> F(BoolInt((i - 1) % N = (i - 1) \div N))]

\* Identity().apply(x): a square matrix is set to the identity, any other
\* shape is refused; whether the 1 x 1 shape, which has no declared axis,
\* counts as a square matrix is not told
IdentityApply(x) ==
  /\ CanCall
  /\ Usable(x)
  /\ LET shape == TV(x).shape
         N == Dim(shape, 0)
         values == IdentityValues(N)
     IN \/ /\ Len(shape.dims) \in {0, 2}
           /\ Dim(shape, 0) = Dim(shape, 1)
           /\ InPlace("identity", x, <<x>>, 0, 0, values,
                      reset_tensor_by_vector_impl(TV(x), values))
        \/ /\ ~(Len(shape.dims) = 2 /\ Dim(shape, 0) = Dim(shape, 1))
           /\ Reject("identity", <<x>>, 0, 0, NoScalar)

\* the shapes of the Tensors the initializers are applied to: those of one
\* sample, and {3,3} and {2,3}
InitializerShapes ==
  {s \in Shapes : batch_size(s) = 1} \cup {MkShape(<<3, 3>>, 1), MkShape(<<2, 3>>, 1)}
\* the bounds (lower, upper) given to Uniform and to random_uniform
UniformRanges == {<<0, 2>>, <<0 - 1, 1>>, <<0 - 1, 0>>}
XavierBounds == {1}
InitializerIds == 1..(1 + MaxKernelOps)

InitInitializers ==
  \E s \in InitializerShapes :
    /\ tensors = [t \in InitializerIds |-> IF t = 1 THEN MkTensor(s, 1) ELSE NoTensor]
    /\ heap = (1 :> Ramp(num_total_elements(s), 1))
    /\ blocks_ = (1 :> mem_size(s))
    /\ device = "alive"
    /\ last = Op("init", FALSE, 0, 0, 0, NULL)
    /\ out = <<>>
    /\ nops = MaxKernelOps

NextInitializers ==
  \/ \E s \in VectorShapes, r \in UniformRanges : RandomUniform(s, r[1], r[2])
  \/ \E r \in UniformRanges : UniformApply(1, r[1], r[2])
  \/ \E bound \in XavierBounds : XavierUniformApply(1, bound)
  \/ IdentityApply(1)

SpecInitializers == InitInitializers /\ [][NextInitializers]_vars

(***************************************************************************)
(* Properties.                                                             *)
(***************************************************************************)
ValidTensors == {t \in TensorIds : tensors[t].alive /\ valid(tensors[t])}
Owners(h) == {t \in ValidTensors : tensors[t].data = h}

\* C1: the registry holds exactly the handles that were allocated and not
\* yet disposed, each with the byte size of its block, and it is empty once
\* no Tensor created by the device is left.
RegistryHoldsLiveHandles ==
  /\ DOMAIN blocks_ = DOMAIN heap
  /\ \A h \in DOMAIN blocks_ : blocks_[h] = SizeofFloat * Len(heap[h])
  /\ (ValidTensors = {}) => (blocks_ = EmptyFn)

\* a Tensor was disposed while another one still holds storage
RegistryAfterDispose ==
  /\ last.op = "dispose" /\ last.h # NULL /\ ~last.err
  /\ blocks_ # EmptyFn

\* C2: the destructor of the device aborts exactly when a handle it allocated
\* is still outstanding, and returns normally exactly when none is.
DestructorAbortsIffLeak ==
  [][(device = "alive" /\ device' # "alive") =>
       /\ (device' = "aborted") <=> (DOMAIN heap # {})
       /\ (device' = "destroyed") <=> (DOMAIN heap = {})]_vars

\* the device was destroyed with a block outstanding
AbortedWithLeak == device = "aborted" /\ DOMAIN heap # {}

\* C3: every storage handle is referred to by exactly one live valid Tensor,
\* a move leaves the source invalid and the destination holding the handle,
\* and no Tensor destruction releases a handle that is not registered.
ExactlyOneOwner ==
  /\ \A h \in DOMAIN heap : Cardinality(Owners(h)) = 1
  /\ \A t \in ValidTensors : tensors[t].data \in DOMAIN heap
  /\ (last.op \in {"move_construct", "move_assign"} /\ ~last.err) =>
       /\ ~valid(tensors[last.a])
       /\ tensors[last.t].data = last.h
  /\ (last.op \in {"dispose", "move_assign"}) => ~last.err

\* a valid Tensor was move-assigned to another Tensor, which now owns its storage
MovedOntoValid ==
  /\ last.op = "move_assign" /\ last.h # NULL
  /\ Owners(last.h) = {last.t}
  /\ valid(tensors[last.t]) /\ ~valid(tensors[last.a])

\* C4: disposing a handle that is not in the registry raises an error and
\* leaves the registry and every block as they were; disposing a registered
\* handle raises none.
UnknownHandleRejected ==
  [][(last'.op = "delete_tensor" \/ (last'.op = "dispose" /\ last'.h # NULL)) =>
       /\ last'.err <=> (last'.h \notin DOMAIN blocks_)
       /\ last'.err => (blocks_' = blocks_ /\ heap' = heap)]_vars

\* an unknown handle was disposed while the registry held a block
UnknownHandleDisposed ==
  /\ last.op = "delete_tensor" /\ last.err
  /\ blocks_ # EmptyFn

\* the kernels said to write into an existing Tensor
GradientKernels == {"add_gradient", "add_gradient_offset"}
\* the kernels that write into an existing Tensor
InPlaceKernels == GradientKernels \cup {"reset", "reset_by_vector"}
\* the step left every block that existed before it as it was
StorageKept == \A h \in DOMAIN heap : h \in DOMAIN heap' /\ heap'[h] = heap[h]
\* the step left every Tensor that existed before it as it was
TensorsKept == \A t \in DOMAIN tensors : tensors[t].alive => tensors'[t] = tensors[t]
\* the Tensor the step returned did not exist before it, nor did its block
ResultIsFresh ==
  /\ last'.t \in DOMAIN tensors /\ ~tensors[last'.t].alive
  /\ last'.h \notin DOMAIN heap /\ last'.h \in DOMAIN heap'
  /\ tensors'[last'.t].data = last'.h

\* C5 as stated: every kernel other than add_gradient and add_gradient_offset
\* leaves the storage of every existing Tensor unchanged and delivers its
\* result only in a newly allocated Tensor.
OnlyGradientKernelsMutate ==
  [][(last'.op \notin GradientKernels) =>
       /\ StorageKept
       /\ TensorsKept
       /\ (~last'.err /\ last'.op # "to_vector") => ResultIsFresh]_vars

\* C5: add_gradient, add_gradient_offset and the two reset kernels are the
\* only kernels that write the storage of an existing Tensor, and they write
\* the storage of their first argument only; every other kernel leaves every
\* existing Tensor and its storage unchanged, and the Tensor it returns, if
\* any, is newly allocated.
OnlyInPlaceKernelsMutate ==
  [][/\ (last'.op \notin InPlaceKernels) =>
          /\ StorageKept
          /\ TensorsKept
          /\ (~last'.err /\ last'.op # "to_vector") => ResultIsFresh
     /\ (last'.op \in InPlaceKernels) =>
          /\ tensors' = tensors
          /\ DOMAIN heap' = DOMAIN heap
          /\ \A h \in DOMAIN heap :
               heap'[h] # heap[h] => (~last'.err /\ h = tensors[last'.xs[1]].data)]_vars

\* reset(x, k) has overwritten the ramp an existing Tensor held
ResetOverwroteStorage ==
  /\ last.op = "reset" /\ ~last.err
  /\ Len(heap[last.h]) >= 2
  /\ \A i \in 1..Len(heap[last.h]) : heap[last.h][i] = last.k

\* element i of sample s of the Tensor value x
Sample(x, s, i) == x.data[s * num_elements_per_sample(x.shape) + i + 1]
\* the same, a Tensor of batch size 1 lending its one sample to every s
Elem(x, s, i) == Sample(x, IF batch_size(x.shape) > 1 THEN s ELSE 0, i)
SampleIndices(x) == 0..(batch_size(x.shape) - 1)
ElemIndices(x) == 0..(num_elements_per_sample(x.shape) - 1)

BinaryKernels == {"add", "subtract", "multiply", "divide"}

\* C6: the result of add, subtract, multiply or divide on two Tensors has a's
\* per-sample shape and the larger batch size, and its element i of sample s
\* is a[sa][i] op b[sb][i], sa being s when a has more than one sample and 0
\* otherwise, and likewise sb.
ElementwiseWithBroadcast ==
  (last.op \in BinaryKernels /\ ~last.err) =>
    LET a == TV(last.a)
        b == TV(last.b)
        r == TV(last.t)
    IN /\ Compatible(a.shape, b.shape)
       /\ r.shape.dims = a.shape.dims
       /\ r.shape.k = Max(a.shape.k, b.shape.k)
       /\ Len(r.data) = num_elements_per_sample(a.shape) * r.shape.k
       /\ \A s \in SampleIndices(r), i \in ElemIndices(a) :
            Sample(r, s, i) = BinaryOp(last.op, Elem(a, s, i), Elem(b, s, i))
       /\ ~last.ub

\* a Tensor of one sample was subtracted from a Tensor of several samples
SubtractedWithBroadcast ==
  /\ last.op = "subtract" /\ ~last.err
  /\ batch_size(TV(last.a).shape) > 1 /\ batch_size(TV(last.b).shape) = 1
  /\ num_elements_per_sample(TV(last.a).shape) > 1
  /\ batch_size(TV(last.t).shape) = batch_size(TV(last.a).shape)

RECURSIVE AddSamples(_, _, _, _)
\* v + x[0][i] + ... + x[n - 1][i]
AddSamples(v, x, i, n) ==
  IF n = 0 THEN v ELSE FAdd(AddSamples(v, x, i, n - 1), Sample(x, n - 1, i))
\* what element i of sample s of dst is after src, read at element j of its
\* samples, was added to it with batch broadcast
Gained(dst, src, s, i, j) ==
  IF batch_size(dst.shape) = 1
  THEN AddSamples(Sample(dst, 0, i), src, j, batch_size(src.shape))
  ELSE FAdd(Sample(dst, s, i), Elem(src, s, j))

\* C7: add_gradient(dst, src) on two Tensors adds to every dst element the
\* matching src element when the batch sizes are equal, the one src sample to
\* every dst sample when src has batch size 1, and the sum of all src samples
\* to the one dst sample when dst has batch size 1; src and the shape of dst
\* stay as they were.
AddGradientAccumulates ==
  [][(last'.op = "add_gradient" /\ ~last'.err /\ last'.a # last'.b) =>
       LET dst == TV(last'.a)
           src == TV(last'.b)
           now == [shape |-> tensors'[last'.a].shape,
                   data |-> heap'[tensors'[last'.a].data]]
       IN /\ now.shape = dst.shape
          /\ Len(now.data) = Len(dst.data)
          /\ \A s \in SampleIndices(dst), i \in ElemIndices(dst) :
               Sample(now, s, i) = Gained(dst, src, s, i, i)
          /\ tensors'[last'.b] = tensors[last'.b]
          /\ heap'[tensors[last'.b].data] = src.data
          /\ ~last'.ub]_vars

\* a gradient of several samples was added to a Tensor of one sample
GradientSummedOverBatch ==
  /\ last.op = "add_gradient" /\ ~last.err
  /\ batch_size(TV(last.a).shape) = 1 /\ batch_size(TV(last.b).shape) > 1
  /\ num_elements_per_sample(TV(last.a).shape) > 1

\* the coordinate along axis dim of element i of a sample of shape s
Coord(s, dim, i) == (i \div num_elements_under_rank(s, dim)) % Dim(s, dim)
\* the element of a sample of shape sb that sits where element i of a sample
\* of shape sa sits, its coordinate along dim reduced by offset
Shifted(sa, sb, dim, offset, i) ==
  LET base == num_elements_under_rank(sa, dim) IN
  (i % base) + (Coord(sa, dim, i) - offset) * base
    + (i \div (base * Dim(sa, dim))) * base * Dim(sb, dim)

\* C8: add_gradient_offset(dst, src, axis, offset) on two Tensors adds to
\* every dst element whose coordinate along axis is in
\* [offset, offset + src.shape[axis]) the src element at that position less
\* offset, with the batch broadcast of add_gradient, leaves every other dst
\* element as it was, and writes nothing outside the storage of dst.
AddGradientOffsetReversesSlice ==
  [][(last'.op = "add_gradient_offset" /\ ~last'.err /\ last'.a # last'.b) =>
       LET dst == TV(last'.a)
           src == TV(last'.b)
           dim == last'.dim
           offset == last'.off
           now == [shape |-> tensors'[last'.a].shape,
                   data |-> heap'[tensors'[last'.a].data]]
       IN /\ now.shape = dst.shape
          /\ Len(now.data) = Len(dst.data)
          /\ \A s \in SampleIndices(dst), i \in ElemIndices(dst) :
               LET c == Coord(dst.shape, dim, i) IN
               Sample(now, s, i) =
                 IF offset <= c /\ c < offset + Dim(src.shape, dim)
                 THEN Gained(dst, src, s, i,
                             Shifted(dst.shape, src.shape, dim, offset, i))
                 ELSE Sample(dst, s, i)
          /\ \A h \in DOMAIN heap : h # tensors[last'.a].data => heap'[h] = heap[h]
          /\ DOMAIN heap' = DOMAIN heap
          /\ ~last'.ub]_vars

\* a gradient was added into the upper half of the middle axis of a Tensor
\* of rank 3
GradientAddedAtOffset ==
  /\ last.op = "add_gradient_offset" /\ ~last.err
  /\ last.dim = 1 /\ last.off = 1
  /\ Len(TV(last.a).shape.dims) = 3
  /\ Dim(TV(last.a).shape, 1) > Dim(TV(last.b).shape, 1)

\* C9: slicing a Tensor x along an axis into consecutive pieces that cover
\* the axis and concatenating the pieces in order along that axis, with the
\* shape of x, gives a Tensor equal to x element for element.
SliceThenConcatIsIdentity ==
  (last.op = "concat" /\ ~last.err) =>
    /\ TV(last.t).shape = TV(1).shape
    /\ TV(last.t).data = TV(1).data
    /\ ~last.ub

\* a Tensor of rank 3 and several samples was cut in two along its middle
\* axis and put together again
TwoPiecesRejoined ==
  /\ last.op = "concat" /\ ~last.err
  /\ Len(last.xs) = 2 /\ last.dim = 1
  /\ Len(TV(1).shape.dims) = 3 /\ batch_size(TV(1).shape) > 1
  /\ TV(last.t).data = TV(1).data

RECURSIVE DotSum(_, _, _, _, _, _)
\* a[s](i, 0) * b[s](0, k) + ... + a[s](i, n - 1) * b[s](n - 1, k), the
\* matrices laid out column by column
DotSum(a, b, s, i, k, n) ==
  IF n = 0 THEN F(0)
  ELSE FAdd(DotSum(a, b, s, i, k, n - 1),
            FMul(Elem(a, s, i + (n - 1) * Dim(a.shape, 0)),
                 Elem(b, s, (n - 1) + k * Dim(b.shape, 0))))

\* C10: dot(a, b) of a (d1, d2) and b (d2, d3) has shape (d1, d3) and the
\* larger batch size, and its element (i, k) of sample s is the sum over j of
\* a[sa](i, j) * b[sb](j, k) in column-major layout; {2,2}[1,2,3,4] times
\* {2,2}[5,6,7,8] is [23, 34, 31, 46], and the identity matrix times x is x.
DotIsMatrixProduct ==
  (last.op = "dot" /\ ~last.err) =>
    LET a == TV(last.a)
        b == TV(last.b)
        r == TV(last.t)
        d1 == Dim(a.shape, 0)
        d2 == Dim(a.shape, 1)
        d3 == Dim(b.shape, 1)
    IN /\ Dim(b.shape, 0) = d2
       /\ r.shape = MkShape(<<d1, d3>>, Max(a.shape.k, b.shape.k))
       /\ Len(r.data) = d1 * d3 * r.shape.k
       /\ \A s \in SampleIndices(r), i \in 0..(d1 - 1), k \in 0..(d3 - 1) :
            Sample(r, s, i + k * d1) = DotSum(a, b, s, i, k, d2)
       /\ ~last.ub
       /\ (a = [shape |-> MkShape(<<2, 2>>, 1), data |-> <<F(1), F(2), F(3), F(4)>>]
             /\ b = [shape |-> MkShape(<<2, 2>>, 1), data |-> <<F(5), F(6), F(7), F(8)>>])
            => r.data = <<F(23), F(34), F(31), F(46)>>
       /\ (d1 = d2 /\ a.data = Diagonal(a.shape))
            => \A s \in SampleIndices(r), i \in 0..(d1 * d3 - 1) :
                 Sample(r, s, i) = Elem(b, s, i)

\* {2,2}[1,2,3,4] was multiplied by {2,2}[5,6,7,8]
DotOfTheExample ==
  /\ last.op = "dot" /\ ~last.err
  /\ TV(last.a).data = <<F(1), F(2), F(3), F(4)>>
  /\ TV(last.b).data = <<F(5), F(6), F(7), F(8)>>
  /\ Len(TV(last.a).shape.dims) = 2 /\ Len(TV(last.b).shape.dims) = 2
  /\ TV(last.t).data = <<F(23), F(34), F(31), F(46)>>

RECURSIVE SumAlong(_, _, _, _, _)
\* x[s][at] + x[s][at + step] + ... + x[s][at + (n - 1) * step], from 0
SumAlong(x, s, at, step, n) ==
  IF n = 0 THEN F(0)
  ELSE FAdd(SumAlong(x, s, at, step, n - 1), Sample(x, s, at + (n - 1) * step))

\* C11: sum(x, axis) has the shape of x with the axis set to 1 and the batch
\* size of x, and each of its elements is the sum of the elements of x of the
\* same sample that agree with it on every other coordinate; the sum of
\* {3,2}[1,2,3,4,5,6] along axis 0 is {1,2}[6,15].
SumReducesAxis ==
  (last.op = "sum" /\ ~last.err) =>
    LET x == TV(last.a)
        r == TV(last.t)
        dim == last.dim
        n == Dim(x.shape, dim)
        base == num_elements_under_rank(x.shape, dim)
    IN /\ r.shape.k = x.shape.k
       /\ \A d \in 0..MaxRank : Dim(r.shape, d) = IF d = dim THEN 1 ELSE Dim(x.shape, d)
       /\ Len(r.data) * n = Len(x.data)
       /\ \A s \in SampleIndices(r), i \in ElemIndices(r) :
            Sample(r, s, i) =
              SumAlong(x, s, (i % base) + (i \div base) * base * n, base, n)
       /\ ~last.ub
       /\ (x = [shape |-> MkShape(<<3, 2>>, 1), data |-> Ramp(6, 1)] /\ dim = 0)
            => r = [shape |-> MkShape(<<1, 2>>, 1), data |-> <<F(6), F(15)>>]

\* {3,2}[1,2,3,4,5,6] was summed along axis 0
SumOfTheExample ==
  /\ last.op = "sum" /\ ~last.err /\ last.dim = 0
  /\ TV(last.a) = [shape |-> MkShape(<<3, 2>>, 1), data |-> Ramp(6, 1)]
  /\ TV(last.t).data = <<F(6), F(15)>>

\* C13: to_vector right after set_values(v) on the same Tensor returns v,
\* element for element in the order of v, and changes neither the Tensor nor
\* any storage.
SetValuesThenToVector ==
  [][(last.op = "reset_by_vector" /\ ~last.err
        /\ last'.op = "to_vector" /\ last'.t = last.t) =>
       /\ ~last'.err
       /\ Len(last.k) = num_total_elements(tensors[last.t].shape)
       /\ out' = last.k
       /\ heap' = heap /\ tensors' = tensors /\ blocks_' = blocks_]_vars

\* the values set in a Tensor of several samples were read back
ValuesReadBack ==
  /\ last.op = "to_vector" /\ ~last.err
  /\ batch_size(TV(last.t).shape) > 1
  /\ Len(out) >= 4
  /\ out = [i \in 1..Len(out) |-> F(40 - i)]

UniformKernels == {"random_uniform", "uniform", "xavier_uniform"}

\* C12: every value random_uniform, Uniform(lo, hi) and XavierUniform deliver
\* is above the lower bound and at most the upper bound: a draw equal to the
\* lower bound comes out as the upper bound, every other draw as it was drawn.
UniformIsLeftOpen ==
  (last.op \in UniformKernels /\ ~last.err) =>
    LET v == heap[last.h]
        lower == last.dim
        upper == last.off
        draws == last.k
    IN /\ tensors[last.t].data = last.h
       /\ Len(v) = num_total_elements(tensors[last.t].shape)
       /\ Len(draws) = Len(v)
       /\ \A i \in 1..Len(v) :
            /\ IsNum(v[i]) /\ v[i][2] > lower /\ v[i][2] <= upper
            /\ v[i] = IF draws[i][2] = lower THEN F(upper) ELSE draws[i]
       /\ ~last.ub

\* Uniform wrote a Tensor for which the generator returned the lower bound,
\* the upper bound and a value between them
LowerBoundDrawn ==
  /\ last.op = "uniform" /\ ~last.err
  /\ \E i, j, k \in 1..Len(last.k) :
       /\ last.k[i] = F(last.dim)
       /\ last.k[j] = F(last.off)
       /\ last.k[k][2] > last.dim /\ last.k[k][2] < last.off

\* C14: Identity.apply(x) succeeds exactly when x is a square matrix, and then
\* element i of the column-major N x N storage is 1 when i is a multiple of
\* N + 1 and 0 otherwise; for every other shape it fails and leaves x as it
\* was.  (The 1 x 1 shape is left out.)
IdentityNeedsSquareMatrix ==
  [][(last'.op = "identity" /\ tensors[last'.a].shape.dims # <<>>) =>
       LET shape == tensors[last'.a].shape
           N == Dim(shape, 0)
           square == Len(shape.dims) = 2 /\ Dim(shape, 0) = Dim(shape, 1)
           v == heap'[tensors[last'.a].data]
       IN /\ last'.err <=> ~square
          /\ tensors' = tensors /\ blocks_' = blocks_
          /\ last'.err => heap' = heap
          /\ ~last'.err =>
               /\ Len(v) = N * N
               /\ \A i \in 0..(N * N - 1) :
                    v[i + 1] = F(BoolInt(i % (N + 1) = 0))
               /\ ~last'.ub]_vars

\* Identity set a 3 x 3 matrix
IdentityOfThree ==
  /\ last.op = "identity" /\ ~last.err
  /\ TV(last.t).shape = MkShape(<<3, 3>>, 1)
  /\ TV(last.t).data =
       <<F(1), F(0), F(0), F(0), F(1), F(0), F(0), F(0), F(1)>>

\* the step changed no Tensor, no block and nothing in the registry
NothingChanged == heap' = heap /\ blocks_' = blocks_ /\ tensors' = tensors

\* C15: add, subtract, multiply or divide on Tensors whose per-sample shapes
\* differ, or whose batch sizes differ with neither being 1, and dot(a, b)
\* with the second extent of a different from the first extent of b, fail,
\* leave no result Tensor and no new block behind, and touch no storage out
\* of bounds.
ShapeMismatchRejected ==
  [][LET sa == tensors[last'.a].shape
         sb == tensors[last'.b].shape
     IN /\ (last'.op \in BinaryKernels
              /\ (sa.dims # sb.dims \/ (sa.k # sb.k /\ sa.k # 1 /\ sb.k # 1))) =>
             (last'.err /\ NothingChanged /\ ~last'.ub)
        /\ (last'.op = "dot" /\ Dim(sa, 1) # Dim(sb, 0)) =>
             (last'.err /\ NothingChanged /\ ~last'.ub)]_vars

\* multiply was refused for batch sizes 2 and 3 of one per-sample shape
BatchMismatchRefused ==
  /\ last.op = "multiply" /\ last.err
  /\ TV(last.a).shape.dims = TV(last.b).shape.dims
  /\ TV(last.a).shape.k = 2 /\ TV(last.b).shape.k = 3
  /\ DOMAIN heap = {1, 2}

(***************************************************************************)
(* Allocation of large Tensors: the life cycle again, with a shape whose   *)
(* byte size does not fit the 32-bit mem_size of new_handle.               *)
(***************************************************************************)
\* the smallest element count whose byte size wraps to a non-zero mem_size
HugeDim == FloatsPerWrap + 1
HugeShapes == {MkShape(<<HugeDim>>, 1)}

NextAlloc ==
  \/ \E t \in TensorIds, s \in VectorShapes \cup HugeShapes : NewTensor(t, s)
  \/ \E t \in TensorIds : NewInvalid(t)
  \/ \E t \in TensorIds : DisposeTensor(t)
  \/ \E d \in TensorIds, s \in TensorIds : MoveConstruct(d, s)
  \/ \E d \in TensorIds, s \in TensorIds : MoveAssign(d, s)
  \/ DestroyDevice

SpecAlloc == Init /\ [][NextAlloc]_vars

\* C16: the block of every valid Tensor is registered with 4 bytes for each
\* element of the Tensor's shape and holds that many floats, and a failed
\* allocation raises an error and leaves the registry as it was.
BlockSizeMatchesShape ==
  /\ \A t \in TensorIds :
       (tensors[t].alive /\ valid(tensors[t])
          /\ tensors[t].data \in DOMAIN blocks_) =>
         /\ blocks_[tensors[t].data] % SizeofFloat = 0
         /\ blocks_[tensors[t].data] \div SizeofFloat
              = num_total_elements(tensors[t].shape)
         /\ Len(heap[tensors[t].data]) = num_total_elements(tensors[t].shape)
  /\ (last.op = "new_tensor" /\ last.h = NULL) => last.err

\* new_tensor succeeded for the shape of HugeDim elements
HugeTensorAllocated ==
  /\ last.op = "new_tensor" /\ ~last.err
  /\ tensors[last.t].shape \in HugeShapes
  /\ blocks_[tensors[last.t].data] = SizeofFloat

====
